---------------------------- MODULE Spec2Model ----------------------------
(***************************************************************************)
(* Model of ds_stat_soul_tool_gui.py: the exponential rate calibration,    *)
(* the greedy stat selector and the DSApp handlers of the leveling tab     *)
(* that read and write base_stats, current_stats and last_computation.     *)
(*                                                                         *)
(* Real numbers.  The code computes r = ln(1 + L/S0)/L and the targets     *)
(* v * e^(r*t) in floating point.  Here a rate is kept symbolically as     *)
(* [num, den, div], standing for ln(num/den)/div, a target as              *)
(* [coef, r, t], standing for coef * e^(r*t), and a deficit as             *)
(* [target, sub], standing for target - sub.  Two deficits of one call     *)
(* are compared exactly, by integer powers:                                *)
(*     e^(r*t) > p/d   iff   num^t * d^div > p^div * den^t   (t, p > 0).   *)
(* IEEE rounding is not modelled.                                          *)
(***************************************************************************)
EXTENDS Integers, Sequences, FiniteSets, TLC

VARIABLES
    heap,              \* the dict objects alive: reference -> stat map
    state,             \* self.state: the references held under "base_stats" and "current_stats"
    last_computation,  \* self.last_computation: <<>> for None, else <<[stat, deficits, r, L, t]>>
    ent_L,             \* the text of the entry "Total Planned Points (L)"
    ent_t,             \* the text of the entry "Points Allocated So Far (t)"
    event,             \* the handler that ran last and how it ended
    file,              \* the save file: <<>> when absent, else <<[base_stats, current_stats]>>
    counts,            \* how many compute_next_stat calls recorded a recommendation, how many +1 were applied
    args,              \* the arguments of a direct call of one of the pure functions
    result             \* what that call returned or raised; <<>> before the call

vars == <<heap, state, last_computation, ent_L, ent_t, event, file, counts, args, result>>

----------------------------------------------------------------------------
(* Bounds *)

MaxBase == 2       \* base values of a direct call range over 0..MaxBase
MaxCur == 2        \* current values of a direct call range over 0..MaxCur
MaxL == 2          \* horizons range over -1..MaxL
MaxT == 2          \* elapsed values range over -1..MaxT
MaxApplied == 4    \* apply_next_stat is explored up to this many increments
MaxComputes == 2   \* a session is explored up to this many recorded recommendations

----------------------------------------------------------------------------
(* Stat names and Python's string order *)

STARTING_CLASSES ==
    [Warrior |->
        [Vitality |-> 11, Attunement |-> 8, Endurance |-> 12, Strength |-> 13,
         Dexterity |-> 13, Resistance |-> 11, Intelligence |-> 9, Faith |-> 9]]

\* The code points of every stat name the model uses.
NameCodes ==
    ("A" :> <<65>>) @@
    ("AB" :> <<65, 66>>) @@
    ("B" :> <<66>>) @@
    ("Vitality" :> <<86, 105, 116, 97, 108, 105, 116, 121>>) @@
    ("Attunement" :> <<65, 116, 116, 117, 110, 101, 109, 101, 110, 116>>) @@
    ("Endurance" :> <<69, 110, 100, 117, 114, 97, 110, 99, 101>>) @@
    ("Strength" :> <<83, 116, 114, 101, 110, 103, 116, 104>>) @@
    ("Dexterity" :> <<68, 101, 120, 116, 101, 114, 105, 116, 121>>) @@
    ("Resistance" :> <<82, 101, 115, 105, 115, 116, 97, 110, 99, 101>>) @@
    ("Intelligence" :> <<73, 110, 116, 101, 108, 108, 105, 103, 101, 110, 99, 101>>) @@
    ("Faith" :> <<70, 97, 105, 116, 104>>)

RECURSIVE LexLess(_, _)
\* s < t for two sequences of code points, as Python compares str.
LexLess(s, t) ==
    IF t = <<>> THEN FALSE
    ELSE IF s = <<>> THEN TRUE
    ELSE IF Head(s) # Head(t) THEN Head(s) < Head(t)
    ELSE LexLess(Tail(s), Tail(t))

StrLess(a, b) == LexLess(NameCodes[a], NameCodes[b])

----------------------------------------------------------------------------
(* Arithmetic *)

RECURSIVE Pow(_, _)
Pow(b, e) == IF e = 0 THEN 1 ELSE b * Pow(b, e - 1)

Sign(x) == IF x > 0 THEN 1 ELSE IF x < 0 THEN -1 ELSE 0

RECURSIVE SumSeq(_)
\* sum(N0_values)
SumSeq(s) == IF s = <<>> THEN 0 ELSE Head(s) + SumSeq(Tail(s))

RECURSIVE ValuesOf(_, _)
\* list(m.values()) of the keys ks of m, in some order (the sum does not depend on it)
ValuesOf(m, ks) ==
    IF ks = {} THEN <<>>
    ELSE LET k == CHOOSE x \in ks : TRUE
         IN  <<m[k]>> \o ValuesOf(m, ks \ {k})

\* The float 0.0 as a rate: ln(1/1)/1.
ZeroRate == [num |-> 1, den |-> 1, div |-> 1]

RatePositive(r) == r.div > 0 /\ r.num > r.den /\ r.den > 0

\* Sign of e^(r*t) - p/d for d > 0, where e^(r*t) = (r.num/r.den)^(t/r.div).
ExpCmp(r, t, p, d) ==
    IF r.num = r.den \/ t = 0 THEN Sign(d - p)
    ELSE IF p <= 0 THEN 1
    ELSE IF t > 0
         THEN Sign(Pow(r.num, t) * Pow(d, r.div) - Pow(p, r.div) * Pow(r.den, t))
         ELSE Sign(Pow(r.den, -t) * Pow(d, r.div) - Pow(p, r.div) * Pow(r.num, -t))

\* Sign of x - y for two deficits of the same call (same r and t).
DeficitCmp(x, y) ==
    LET db == x.target.coef - y.target.coef
        dc == x.sub - y.sub
    IN  IF db = 0 THEN Sign(-dc)
        ELSE IF db > 0 THEN ExpCmp(x.target.r, x.target.t, dc, db)
        ELSE -ExpCmp(x.target.r, x.target.t, -dc, -db)

----------------------------------------------------------------------------
(* The pure functions *)

compute_common_r_NoZeroGuard(N0_values, L) ==
    IF L < 0 THEN ZeroRate
    ELSE LET S0 == SumSeq(N0_values)
         IN  IF S0 < 0 THEN ZeroRate
             ELSE [num |-> S0 + L, den |-> S0, div |-> L]

compute_common_r_NoDivide(N0_values, L) ==
    IF L <= 0 THEN ZeroRate
    ELSE LET S0 == SumSeq(N0_values)
         IN  IF S0 <= 0 THEN ZeroRate
             ELSE [num |-> S0 + L, den |-> S0, div |-> 1]

compute_common_r(N0_values, L) ==
    IF L <= 0 THEN ZeroRate
    ELSE LET S0 == SumSeq(N0_values)
         IN  IF S0 <= 0 THEN ZeroRate
             ELSE [num |-> S0 + L, den |-> S0, div |-> L]

continuous_targets(N0_map, r, t) ==
    [k \in DOMAIN N0_map |-> [coef |-> N0_map[k], r |-> r, t |-> t]]

KeyGreater_SmallestName(N0_map, deficits, a, b) ==
    LET c == DeficitCmp(deficits[a], deficits[b])
    IN  \/ c > 0
        \/ c = 0 /\ N0_map[a] > N0_map[b]
        \/ c = 0 /\ N0_map[a] = N0_map[b] /\ StrLess(a, b)

KeyGreater_BaseFirst(N0_map, deficits, a, b) ==
    LET c == DeficitCmp(deficits[a], deficits[b])
    IN  \/ N0_map[a] > N0_map[b]
        \/ N0_map[a] = N0_map[b] /\ c > 0
        \/ N0_map[a] = N0_map[b] /\ c = 0 /\ StrLess(b, a)

KeyGreater_SmallestBase(N0_map, deficits, a, b) ==
    LET c == DeficitCmp(deficits[a], deficits[b])
    IN  \/ c > 0
        \/ c = 0 /\ N0_map[a] < N0_map[b]
        \/ c = 0 /\ N0_map[a] = N0_map[b] /\ StrLess(b, a)

KeyGreater_SmallestDeficit(N0_map, deficits, a, b) ==
    LET c == DeficitCmp(deficits[a], deficits[b])
    IN  \/ c < 0
        \/ c = 0 /\ N0_map[a] > N0_map[b]
        \/ c = 0 /\ N0_map[a] = N0_map[b] /\ StrLess(b, a)

\* (x[1], N0_map[x[0]], x[0]) of a is greater than that of b, as Python compares tuples.
KeyGreater(N0_map, deficits, a, b) ==
    LET c == DeficitCmp(deficits[a], deficits[b])
    IN  \/ c > 0
        \/ c = 0 /\ N0_map[a] > N0_map[b]
        \/ c = 0 /\ N0_map[a] = N0_map[b] /\ StrLess(b, a)

greedy_next_stat_to_increment_MissingAsZero(N0_map, current_map, L_horizon, t_now) ==
    LET r == compute_common_r(ValuesOf(N0_map, DOMAIN N0_map), L_horizon)
        S == continuous_targets(N0_map, r, t_now)
        deficits == [k \in DOMAIN N0_map |->
                        [target |-> S[k],
                         sub |-> IF k \in DOMAIN current_map THEN current_map[k] ELSE 0]]
    IN  IF DOMAIN N0_map = {} THEN [raised |-> "ValueError"]
        ELSE [raised |-> "none",
              choice |-> CHOOSE k \in DOMAIN N0_map :
                            \A j \in DOMAIN N0_map \ {k} : KeyGreater(N0_map, deficits, k, j),
              deficits |-> deficits,
              r |-> r]

greedy_next_stat_to_increment(N0_map, current_map, L_horizon, t_now) ==
    LET r == compute_common_r(ValuesOf(N0_map, DOMAIN N0_map), L_horizon)
        S == continuous_targets(N0_map, r, t_now)
    IN  IF ~(DOMAIN N0_map \subseteq DOMAIN current_map) THEN [raised |-> "KeyError"]
        ELSE IF DOMAIN N0_map = {} THEN [raised |-> "ValueError"]
        ELSE LET deficits == [k \in DOMAIN N0_map |->
                                 [target |-> S[k], sub |-> current_map[k]]]
             IN  [raised |-> "none",
                  choice |-> CHOOSE k \in DOMAIN N0_map :
                                \A j \in DOMAIN N0_map \ {k} : KeyGreater(N0_map, deficits, k, j),
                  deficits |-> deficits,
                  r |-> r]

----------------------------------------------------------------------------
(* Direct calls of the pure functions, on bounded inputs *)

Keys == {"A", "AB", "B"}

\* Every dict from a subset of Keys to values of V.
MapsOver(V) == UNION {[S -> V] : S \in SUBSET Keys}

GreedyArgs ==
    [fn : {"greedy_next_stat_to_increment"},
     N0_map : MapsOver(0..MaxBase),
     current_map : MapsOver(0..MaxCur),
     L : -1..MaxL,
     t : -1..MaxT]

RateArgs ==
    [fn : {"compute_common_r"},
     N0_values : UNION {[1..n -> -1..MaxBase] : n \in 0..2},
     L : -1..MaxL]

\* The call base = current = {Vitality: 11, Strength: 13}, L = 2, t = 1.
ScenarioArgs ==
    {[fn |-> "greedy_next_stat_to_increment",
      N0_map |-> [Vitality |-> 11, Strength |-> 13],
      current_map |-> [Vitality |-> 11, Strength |-> 13],
      L |-> 2,
      t |-> 1]}

CallGreedy ==
    /\ args.fn = "greedy_next_stat_to_increment"
    /\ result = <<>>
    /\ result' = <<greedy_next_stat_to_increment(args.N0_map, args.current_map, args.L, args.t)>>
    /\ UNCHANGED <<heap, state, last_computation, ent_L, ent_t, event, file, counts, args>>

CallComputeCommonR ==
    /\ args.fn = "compute_common_r"
    /\ result = <<>>
    /\ result' = <<compute_common_r(args.N0_values, args.L)>>
    /\ UNCHANGED <<heap, state, last_computation, ent_L, ent_t, event, file, counts, args>>

----------------------------------------------------------------------------
(* The application state *)

Refs == 1..3

\* deepcopy(STARTING_CLASSES["Warrior"]), twice: two separate dicts.
fresh_state ==
    /\ heap = (1 :> STARTING_CLASSES.Warrior) @@ (2 :> STARTING_CLASSES.Warrior)
    /\ state = [base_stats |-> 1, current_stats |-> 2]

base_stats == heap[state.base_stats]
current_stats == heap[state.current_stats]

NoEvent == [op |-> "__init__", dialog |-> "none", selector |-> FALSE]

Total(m) == SumSeq(ValuesOf(m, DOMAIN m))

----------------------------------------------------------------------------
(* int(self.ent_L.get()): entry texts are sequences of characters *)

DigitChar == <<"0", "1", "2", "3", "4", "5", "6", "7", "8", "9">>

DigitVal == [c \in {DigitChar[i] : i \in 1..10} |-> CHOOSE i \in 0..9 : DigitChar[i + 1] = c]

RECURSIVE Strip(_)
\* str.strip() of blanks
Strip(s) ==
    IF s = <<>> THEN s
    ELSE IF Head(s) = " " THEN Strip(Tail(s))
    ELSE IF s[Len(s)] = " " THEN Strip(SubSeq(s, 1, Len(s) - 1))
    ELSE s

RECURSIVE DigitsValue(_)
DigitsValue(s) ==
    IF s = <<>> THEN 0
    ELSE 10 * DigitsValue(SubSeq(s, 1, Len(s) - 1)) + DigitVal[s[Len(s)]]

\* int(text): [ok |-> TRUE, val |-> n], or [ok |-> FALSE] where Python raises ValueError.
int(text) ==
    LET b == Strip(text)
        signed == b # <<>> /\ b[1] \in {"+", "-"}
        digits == IF signed THEN Tail(b) ELSE b
    IN  IF digits = <<>> \/ \E i \in 1..Len(digits) : digits[i] \notin DOMAIN DigitVal
        THEN [ok |-> FALSE, val |-> 0]
        ELSE [ok |-> TRUE,
              val |-> IF signed /\ b[1] = "-" THEN -DigitsValue(digits) ELSE DigitsValue(digits)]

\* What the user may have typed into an entry: the integers -1..max and some other texts.
Typed(n) == IF n < 0 THEN <<"-", DigitChar[1 - n]>> ELSE <<DigitChar[n + 1]>>

EntryTexts(max) ==
    {Typed(n) : n \in -1..max} \cup {<<>>, <<"x">>, <<"1", ".", "5">>, <<" ", "1", " ">>}

----------------------------------------------------------------------------
(* The handlers of the leveling tab *)

compute_next_stat_AutoApply ==
    LET L == int(ent_L)
        t == int(ent_t)
        g == greedy_next_stat_to_increment(base_stats, current_stats, L.val, t.val)
    IN  /\ L.ok /\ t.ok /\ L.val > 0 /\ t.val > 0 /\ g.raised = "none"
        /\ Total(current_stats) < Total(STARTING_CLASSES.Warrior) + MaxApplied
        /\ last_computation' =
               <<[stat |-> g.choice, deficits |-> g.deficits, r |-> g.r, L |-> L.val, t |-> t.val]>>
        /\ heap' = [heap EXCEPT ![state.current_stats][g.choice] = @ + 1]
        /\ event' = [op |-> "compute_next_stat", dialog |-> "none", selector |-> TRUE]
        /\ UNCHANGED <<state, ent_L, ent_t, args, result>>

compute_next_stat_NoValidation ==
    LET L == int(ent_L)
        t == int(ent_t)
        g == greedy_next_stat_to_increment(base_stats, current_stats, L.val, t.val)
    IN  /\ g.raised = "none"
        /\ last_computation' =
               <<[stat |-> g.choice, deficits |-> g.deficits, r |-> g.r, L |-> L.val, t |-> t.val]>>
        /\ event' = [op |-> "compute_next_stat", dialog |-> "none", selector |-> TRUE]
        /\ UNCHANGED <<heap, state, ent_L, ent_t, args, result>>

compute_next_stat ==
    LET L == int(ent_L)
        t == int(ent_t)
    IN  IF ~L.ok \/ ~t.ok \/ L.val <= 0 \/ t.val <= 0
        THEN \* showwarning("Invalid", ...); return
             /\ event' = [op |-> "compute_next_stat", dialog |-> "Invalid", selector |-> FALSE]
             /\ UNCHANGED <<heap, state, last_computation, ent_L, ent_t, args, result>>
        ELSE LET g == greedy_next_stat_to_increment(base_stats, current_stats, L.val, t.val)
             IN  IF g.raised = "ValueError"
                 THEN \* showerror("Computation Error", ...); return
                      /\ event' = [op |-> "compute_next_stat", dialog |-> "Computation Error",
                                   selector |-> TRUE]
                      /\ UNCHANGED <<heap, state, last_computation, ent_L, ent_t, args, result>>
                 ELSE IF g.raised = "KeyError"
                 THEN \* not caught: the handler ends with the exception
                      /\ event' = [op |-> "compute_next_stat", dialog |-> "KeyError",
                                   selector |-> TRUE]
                      /\ UNCHANGED <<heap, state, last_computation, ent_L, ent_t, args, result>>
                 ELSE /\ last_computation' =
                             <<[stat |-> g.choice, deficits |-> g.deficits, r |-> g.r,
                                L |-> L.val, t |-> t.val]>>
                      /\ event' = [op |-> "compute_next_stat", dialog |-> "none",
                                   selector |-> TRUE]
                      /\ UNCHANGED <<heap, state, ent_L, ent_t, args, result>>

\* m[k] = v on a dict: the key is added when it is missing.
DictSet(m, k, v) == [x \in DOMAIN m \cup {k} |-> IF x = k THEN v ELSE m[x]]

\* m.get(k, default)
DictGet(m, k, default) == IF k \in DOMAIN m THEN m[k] ELSE default

\* isinstance(x, dict): every object of the heap is a dict keyed by stat names.
IsDict(x) == DOMAIN x \subseteq DOMAIN NameCodes

apply_next_stat_WrongStat ==
    /\ last_computation # <<>>
    /\ Total(current_stats) < Total(STARTING_CLASSES.Warrior) + MaxApplied
    /\ LET stat == CHOOSE k \in DOMAIN current_stats : k # last_computation[1].stat
       IN  heap' = [heap EXCEPT ![state.current_stats] =
                        DictSet(current_stats, stat, DictGet(current_stats, stat, 0) + 1)]
    /\ last_computation' = <<>>
    /\ event' = [op |-> "apply_next_stat", dialog |-> "Applied", selector |-> FALSE]
    /\ UNCHANGED <<state, ent_L, ent_t, args, result>>

apply_next_stat_KeepsRecommendation ==
    IF last_computation = <<>>
    THEN /\ event' = [op |-> "apply_next_stat", dialog |-> "Compute first", selector |-> FALSE]
         /\ UNCHANGED <<heap, state, last_computation, ent_L, ent_t, args, result>>
    ELSE LET stat == last_computation[1].stat
         IN  /\ Total(current_stats) < Total(STARTING_CLASSES.Warrior) + MaxApplied
             /\ heap' = [heap EXCEPT ![state.current_stats] =
                            DictSet(current_stats, stat, DictGet(current_stats, stat, 0) + 1)]
             /\ event' = [op |-> "apply_next_stat", dialog |-> "Applied", selector |-> FALSE]
             /\ UNCHANGED <<state, last_computation, ent_L, ent_t, args, result>>

apply_next_stat ==
    IF last_computation = <<>>
    THEN \* showwarning("Compute first", ...); return
         /\ event' = [op |-> "apply_next_stat", dialog |-> "Compute first", selector |-> FALSE]
         /\ UNCHANGED <<heap, state, last_computation, ent_L, ent_t, args, result>>
    ELSE LET stat == last_computation[1].stat
         IN  /\ Total(current_stats) < Total(STARTING_CLASSES.Warrior) + MaxApplied
             /\ last_computation' = <<>>
             /\ IF IsDict(current_stats)
                THEN /\ heap' = [heap EXCEPT ![state.current_stats] =
                                    DictSet(current_stats, stat,
                                            DictGet(current_stats, stat, 0) + 1)]
                     /\ event' = [op |-> "apply_next_stat", dialog |-> "Applied",
                                  selector |-> FALSE]
                ELSE /\ heap' = heap
                     /\ event' = [op |-> "apply_next_stat", dialog |-> "Error",
                                  selector |-> FALSE]
             /\ UNCHANGED <<state, ent_L, ent_t, args, result>>

\* A reference no live object uses.
NewRef(live) == CHOOSE o \in Refs : o \notin live

reset_current_stats_NoCopy(answer) ==
    /\ answer
    /\ state' = [state EXCEPT !.current_stats = state.base_stats]
    /\ heap' = [o \in {state.base_stats} |-> heap[o]]
    /\ last_computation' = <<>>
    /\ event' = [op |-> "reset_current_stats", dialog |-> "Reset Complete", selector |-> FALSE]
    /\ UNCHANGED <<ent_L, ent_t, args, result>>

reset_current_stats_Clear(answer) ==
    /\ answer
    /\ LET new == NewRef({state.base_stats, state.current_stats})
       IN  /\ state' = [state EXCEPT !.current_stats = new]
           /\ heap' = [o \in {state.base_stats, new} |->
                          IF o = new THEN [k \in {} |-> 0] ELSE heap[o]]
    /\ last_computation' = <<>>
    /\ event' = [op |-> "reset_current_stats", dialog |-> "Reset Complete", selector |-> FALSE]
    /\ UNCHANGED <<ent_L, ent_t, args, result>>

\* answer: what the user replies to askyesno("Reset Stats", ...)
reset_current_stats(answer) ==
    IF answer
    THEN \* deepcopy makes a new dict; the dict current_stats named before is dropped
         /\ LET new == NewRef({state.base_stats, state.current_stats})
            IN  /\ state' = [state EXCEPT !.current_stats = new]
                /\ heap' = [o \in {state.base_stats, new} |-> heap[state.base_stats]]
         /\ last_computation' = <<>>
         /\ event' = [op |-> "reset_current_stats", dialog |-> "Reset Complete",
                      selector |-> FALSE]
         /\ UNCHANGED <<ent_L, ent_t, args, result>>
    ELSE /\ event' = [op |-> "reset_current_stats", dialog |-> "none", selector |-> FALSE]
         /\ UNCHANGED <<heap, state, last_computation, ent_L, ent_t, args, result>>

----------------------------------------------------------------------------
(* Specifications *)

\* The handlers of the leveling tab, from fresh_state.
Init ==
    /\ fresh_state
    /\ last_computation = <<>>
    /\ ent_L = <<"1">>
    /\ ent_t = <<"1">>
    /\ event = NoEvent
    /\ file = <<>>
    /\ counts = [computes |-> 0, applies |-> 0]
    /\ args = [fn |-> "none"]
    /\ result = <<>>

\* The user types into one of the two entries.
EditL ==
    /\ \E text \in EntryTexts(MaxL) : ent_L' = text
    /\ event' = [op |-> "edit", dialog |-> "none", selector |-> FALSE]
    /\ UNCHANGED <<heap, state, last_computation, ent_t, args, result>>

EditT ==
    /\ \E text \in EntryTexts(MaxT) : ent_t' = text
    /\ event' = [op |-> "edit", dialog |-> "none", selector |-> FALSE]
    /\ UNCHANGED <<heap, state, last_computation, ent_L, args, result>>

ResetCurrentStats == \E answer \in BOOLEAN : reset_current_stats(answer)

Next ==
    \/ EditL /\ UNCHANGED <<file, counts>>
    \/ EditT /\ UNCHANGED <<file, counts>>
    \/ compute_next_stat /\ UNCHANGED <<file, counts>>
    \/ apply_next_stat /\ UNCHANGED <<file, counts>>
    \/ ResetCurrentStats /\ UNCHANGED <<file, counts>>

Spec == Init /\ [][Next]_vars

\* One direct call of a pure function on each bounded input.
InitPure ==
    /\ fresh_state
    /\ last_computation = <<>>
    /\ ent_L = <<"1">>
    /\ ent_t = <<"1">>
    /\ event = NoEvent
    /\ file = <<>>
    /\ counts = [computes |-> 0, applies |-> 0]
    /\ args \in GreedyArgs \cup RateArgs \cup ScenarioArgs
    /\ result = <<>>

NextPure ==
    \/ CallGreedy
    \/ CallComputeCommonR

SpecPure == InitPure /\ [][NextPure]_vars

----------------------------------------------------------------------------
(* A session with the Save and Load buttons *)

\* save_state(self.state): json.dump writes the two dicts of stats (string keys,
\* integer values) as they are.
on_save ==
    /\ file' = <<[base_stats |-> base_stats, current_stats |-> current_stats]>>
    /\ event' = [op |-> "on_save", dialog |-> "Saved", selector |-> FALSE]
    /\ UNCHANGED <<heap, state, last_computation, ent_L, ent_t, args, result>>

on_load_KeepsRecommendation ==
    /\ heap' = IF file = <<>>
               THEN (1 :> STARTING_CLASSES.Warrior) @@ (2 :> STARTING_CLASSES.Warrior)
               ELSE (1 :> file[1].base_stats) @@ (2 :> file[1].current_stats)
    /\ state' = [base_stats |-> 1, current_stats |-> 2]
    /\ event' = [op |-> "on_load", dialog |-> "Loaded", selector |-> FALSE]
    /\ UNCHANGED <<last_computation, file, ent_L, ent_t, args, result>>

\* self.state = load_state(): json.load builds new dicts from the file, or
\* fresh_state() does when there is no file; the dicts self.state named before
\* are dropped, so the new ones are given the references 1 and 2.
on_load ==
    /\ heap' = IF file = <<>>
               THEN (1 :> STARTING_CLASSES.Warrior) @@ (2 :> STARTING_CLASSES.Warrior)
               ELSE (1 :> file[1].base_stats) @@ (2 :> file[1].current_stats)
    /\ state' = [base_stats |-> 1, current_stats |-> 2]
    /\ last_computation' = <<>>
    /\ event' = [op |-> "on_load", dialog |-> "Loaded", selector |-> FALSE]
    /\ UNCHANGED <<file, ent_L, ent_t, args, result>>

\* The step has recorded a recommendation / has applied +1.
Recorded == event'.op = "compute_next_stat" /\ event'.dialog = "none"
Applied == event'.op = "apply_next_stat" /\ event'.dialog = "Applied"

\* counts follows the step.
Count ==
    counts' = [computes |-> counts.computes + (IF Recorded THEN 1 ELSE 0),
               applies |-> counts.applies + (IF Applied THEN 1 ELSE 0)]

NextSession ==
    \/ EditL /\ UNCHANGED <<file, counts>>
    \/ EditT /\ UNCHANGED <<file, counts>>
    \/ counts.computes < MaxComputes /\ compute_next_stat /\ Count /\ UNCHANGED file
    \/ counts.applies <= MaxComputes /\ apply_next_stat /\ Count /\ UNCHANGED file
    \/ ResetCurrentStats /\ UNCHANGED <<file, counts>>
    \/ on_save /\ UNCHANGED counts
    \/ on_load /\ UNCHANGED counts

SpecSession == Init /\ [][NextSession]_vars

----------------------------------------------------------------------------
(* Properties of greedy_next_stat_to_increment and compute_common_r, under SpecPure *)

\* A direct call of greedy_next_stat_to_increment has returned (choice, deficits, r).
GreedyReturned ==
    /\ args.fn = "greedy_next_stat_to_increment"
    /\ result # <<>>
    /\ result[1].raised = "none"

\* Stat j has the same deficit and the same base value as the chosen stat.
TiedWithChoice(j) ==
    /\ DeficitCmp(result[1].deficits[j], result[1].deficits[result[1].choice]) = 0
    /\ args.N0_map[j] = args.N0_map[result[1].choice]

\* C1, as stated: among the stats tied with the chosen one on both deficit and base
\* value, the chosen stat has the lexicographically smallest name.
C1_ChoiceIsSmallestName ==
    GreedyReturned =>
        \A j \in DOMAIN args.N0_map : TiedWithChoice(j) => ~StrLess(j, result[1].choice)

\* C1, amended: among the stats tied with the chosen one on both deficit and base
\* value, the chosen stat has the lexicographically largest name.
C1_ChoiceIsLargestName ==
    GreedyReturned =>
        \A j \in DOMAIN args.N0_map : TiedWithChoice(j) => ~StrLess(result[1].choice, j)

\* The fully tied case of two stats "A" and "B": "B" is chosen.
C1_Witness ==
    /\ GreedyReturned
    /\ DOMAIN args.N0_map = {"A", "B"}
    /\ args.N0_map["A"] = args.N0_map["B"]
    /\ args.current_map["A"] = 0 /\ args.current_map["B"] = 0
    /\ TiedWithChoice("A") /\ TiedWithChoice("B")
    /\ result[1].choice = "B"

\* C2: for a non-empty base map and a current map with every base key, the call
\* returns, the chosen stat is a key of the base map and no stat of the returned
\* deficit map has a larger deficit than the chosen one.
C2_ChoiceHasLargestDeficit ==
    (/\ args.fn = "greedy_next_stat_to_increment"
     /\ result # <<>>
     /\ DOMAIN args.N0_map # {}
     /\ DOMAIN args.N0_map \subseteq DOMAIN args.current_map)
    => /\ result[1].raised = "none"
       /\ result[1].choice \in DOMAIN args.N0_map
       /\ DOMAIN result[1].deficits = DOMAIN args.N0_map
       /\ \A j \in DOMAIN result[1].deficits :
              DeficitCmp(result[1].deficits[result[1].choice], result[1].deficits[j]) >= 0

\* The chosen stat has a strictly larger deficit than a stat of larger base value.
C2_Witness ==
    /\ GreedyReturned
    /\ \E j \in DOMAIN args.N0_map :
          /\ args.N0_map[j] > args.N0_map[result[1].choice]
          /\ DeficitCmp(result[1].deficits[result[1].choice], result[1].deficits[j]) > 0

\* C3: no stat that shares the deficit of the chosen stat (the largest one) has a
\* strictly larger base value than the chosen stat.
C3_LargestBaseAmongTied ==
    GreedyReturned =>
        \A j \in DOMAIN args.N0_map :
            DeficitCmp(result[1].deficits[j], result[1].deficits[result[1].choice]) = 0
            => args.N0_map[j] <= args.N0_map[result[1].choice]

\* Two stats of different base value share the largest deficit at a rate above 0.
C3_Witness ==
    /\ GreedyReturned
    /\ RatePositive(result[1].r)
    /\ args.t # 0
    /\ \E j \in DOMAIN args.N0_map :
          /\ DeficitCmp(result[1].deficits[j], result[1].deficits[result[1].choice]) = 0
          /\ args.N0_map[j] < args.N0_map[result[1].choice]

C10_MissingKeyRaises ==
    (/\ args.fn = "greedy_next_stat_to_increment"
     /\ result # <<>>
     /\ ~(DOMAIN args.N0_map \subseteq DOMAIN args.current_map))
    => /\ result[1].raised = "KeyError"
       /\ DOMAIN result[1] = {"raised"}

\* A call whose current_map lacks one base key and holds the others has raised.
C10_Witness ==
    /\ args.fn = "greedy_next_stat_to_increment"
    /\ result # <<>>
    /\ DOMAIN args.N0_map = {"A", "B"}
    /\ DOMAIN args.current_map = {"A"}
    /\ result[1].raised = "KeyError"

\* C11: for L > 0 and values of positive sum S0, the rate r that compute_common_r
\* returns satisfies S0 * e^(r*L) = S0 + L (in exact arithmetic); and in a call of
\* greedy_next_stat_to_increment with t = L the projected targets sum to S0 + L.
C11_RateReachesHorizon ==
    /\ (/\ args.fn = "compute_common_r"
        /\ result # <<>>
        /\ args.L > 0
        /\ SumSeq(args.N0_values) > 0)
       => /\ RatePositive(result[1])
          /\ ExpCmp(result[1], args.L,
                    SumSeq(args.N0_values) + args.L, SumSeq(args.N0_values)) = 0
    /\ (/\ GreedyReturned
        /\ args.L > 0
        /\ args.t = args.L
        /\ Total(args.N0_map) > 0)
       => /\ \A k \in DOMAIN args.N0_map :
                 result[1].deficits[k].target =
                     [coef |-> args.N0_map[k], r |-> result[1].r, t |-> args.L]
          /\ ExpCmp(result[1].r, args.L,
                    Total(args.N0_map) + args.L, Total(args.N0_map)) = 0

\* compute_common_r has returned the rate of a horizon L > 1 for values of
\* positive sum.
C11_Witness ==
    /\ args.fn = "compute_common_r"
    /\ result # <<>>
    /\ args.L > 1
    /\ Len(args.N0_values) = 2
    /\ SumSeq(args.N0_values) > 1
    /\ RatePositive(result[1])

\* current_map equals the base map on every base key, every base value is
\* positive, L > 0 and t > 0.
C12_Case ==
    /\ GreedyReturned
    /\ args.L > 0
    /\ args.t > 0
    /\ \A k \in DOMAIN args.N0_map :
          args.N0_map[k] > 0 /\ args.current_map[k] = args.N0_map[k]

\* C12: when current equals base, the base values are positive, L > 0 and t > 0,
\* every deficit is base[k] * e^(r*t) - base[k] with one positive rate r, and the
\* chosen stat has the largest base value ("Strength" for base
\* {Vitality: 11, Strength: 13}, L = 2, t = 1).
C12_FreshChoiceHasLargestBase ==
    C12_Case =>
        /\ RatePositive(result[1].r)
        /\ \A k \in DOMAIN args.N0_map :
              result[1].deficits[k] =
                  [target |-> [coef |-> args.N0_map[k], r |-> result[1].r, t |-> args.t],
                   sub |-> args.N0_map[k]]
        /\ \A j \in DOMAIN args.N0_map :
              args.N0_map[j] <= args.N0_map[result[1].choice]
        /\ args \in ScenarioArgs => result[1].choice = "Strength"

\* The call of the scenario has returned "Strength".
C12_Witness ==
    /\ C12_Case
    /\ args \in ScenarioArgs
    /\ result[1].choice = "Strength"

----------------------------------------------------------------------------
(* Properties of the handlers, under Spec *)

\* C4: a step of compute_next_stat changes no dict of stats: base_stats and
\* current_stats keep every value, and self.state keeps naming the same dicts.
C4_ComputeIsReadOnly ==
    [][event'.op = "compute_next_stat"
       => /\ base_stats' = base_stats
          /\ current_stats' = current_stats
          /\ heap' = heap
          /\ state' = state]_vars

\* compute_next_stat has recorded a recommendation while current_stats differs
\* from base_stats.
C4_Witness ==
    /\ event.op = "compute_next_stat"
    /\ event.dialog = "none"
    /\ last_computation # <<>>
    /\ current_stats # base_stats

\* C5: every step leaves current_stats as it is, or adds 1 to the pending
\* recommended stat and leaves the other stats as they are, or sets every stat to
\* its base_stats value; and current_stats starts equal to base_stats.
C5_CurrentStatsSteps ==
    /\ current_stats = base_stats
    /\ [][\/ current_stats' = current_stats
          \/ /\ event'.op = "apply_next_stat"
             /\ last_computation # <<>>
             /\ last_computation[1].stat \in DOMAIN current_stats
             /\ current_stats' =
                    [current_stats EXCEPT ![last_computation[1].stat] = @ + 1]
          \/ /\ event'.op = "reset_current_stats"
             /\ current_stats' = base_stats]_vars

\* A recommendation has been applied.
C5_Witness ==
    /\ event.op = "apply_next_stat"
    /\ event.dialog = "Applied"
    /\ current_stats # base_stats

\* C6: current_stats and base_stats have the same keys in every reachable state.
C6_SameKeys == DOMAIN current_stats = DOMAIN base_stats

\* A confirmed reset has made current_stats name a new dict, a copy of base_stats.
C6_Witness ==
    /\ event.dialog = "Reset Complete"
    /\ state.current_stats # 2
    /\ DOMAIN current_stats = DOMAIN STARTING_CLASSES.Warrior

\* C7: base_stats keeps the starting-class values in every reachable state.
C7_BaseNeverMutated == base_stats = STARTING_CLASSES.Warrior

\* A recommendation has been applied to the dict a confirmed reset copied from
\* base_stats.
C7_Witness ==
    /\ state.current_stats = 3
    /\ event.dialog = "Applied"
    /\ current_stats # base_stats

\* The texts int() accepts, written without int(): blanks, an optional sign, digits.
IsIntegerText(text) ==
    \E i, j \in 0..Len(text) :
       LET body == SubSeq(text, i + 1, Len(text) - j)
           digits == IF body # <<>> /\ body[1] \in {"+", "-"} THEN Tail(body) ELSE body
       IN  /\ \A n \in (1..i) \cup ((Len(text) - j + 1)..Len(text)) : text[n] = " "
           /\ digits # <<>>
           /\ \A n \in 1..Len(digits) : digits[n] \in {DigitChar[d] : d \in 1..10}

\* The text is an integer greater than 0.
IsPositiveText(text) ==
    /\ IsIntegerText(text)
    /\ \E n \in 1..Len(text) : text[n] \in {DigitChar[d] : d \in 2..10}
    /\ \A n \in 1..Len(text) : text[n] # "-"

\* C8: a step of compute_next_stat taken while ent_L or ent_t holds a non-integer
\* or an integer <= 0 shows the "Invalid" warning, does not call the selector,
\* records no recommendation and leaves base_stats and current_stats as they are.
C8_InvalidInputRejected ==
    [][(event'.op = "compute_next_stat"
        /\ (~IsPositiveText(ent_L) \/ ~IsPositiveText(ent_t)))
       => /\ event'.dialog = "Invalid"
          /\ ~event'.selector
          /\ last_computation' = last_computation
          /\ base_stats' = base_stats
          /\ current_stats' = current_stats]_vars

\* The warning was shown for t = 0 while a recommendation was pending.
C8_Witness ==
    /\ event.op = "compute_next_stat"
    /\ event.dialog = "Invalid"
    /\ ~event.selector
    /\ IsPositiveText(ent_L)
    /\ ent_t = <<"0">>
    /\ last_computation # <<>>

----------------------------------------------------------------------------
(* Properties of a session with Save and Load, under SpecSession *)

\* C13: apply_next_stat changes no stat when no recommendation is pending; an
\* apply needs a pending recommendation, and an apply, a confirmed reset and a
\* load leave none pending; only a compute_next_stat that succeeds makes one
\* pending; so the +1 applied never outnumber the recommendations recorded.
C13_ApplyConsumesRecommendation ==
    /\ [](counts.applies <= counts.computes)
    /\ [][(event'.op = "apply_next_stat" /\ last_computation = <<>>)
          => heap' = heap /\ state' = state]_vars
    /\ [][Applied => last_computation # <<>>]_vars
    /\ [][(\/ Applied
           \/ event'.op = "reset_current_stats" /\ event'.dialog = "Reset Complete"
           \/ event'.op = "on_load")
          => last_computation' = <<>>]_vars
    /\ [][(last_computation = <<>> /\ last_computation' # <<>>) => Recorded]_vars

\* apply_next_stat was pressed with nothing pending, after every recommendation
\* recorded so far had been applied.
C13_Witness ==
    /\ event.op = "apply_next_stat"
    /\ event.dialog = "Compute first"
    /\ counts.applies >= 2
    /\ counts.applies = counts.computes
    /\ current_stats # base_stats

\* C14: whenever a recommendation is pending, its stat is the one
\* greedy_next_stat_to_increment returns for the present base_stats and
\* current_stats with the L and t recorded in last_computation.
C14_RecommendationNotStale ==
    last_computation # <<>> =>
        LET g == greedy_next_stat_to_increment(base_stats, current_stats,
                                               last_computation[1].L, last_computation[1].t)
        IN  /\ g.raised = "none"
            /\ g.choice = last_computation[1].stat

\* A recommendation is pending while current_stats holds applied increments and
\* equals what the save file holds.
C14_Witness ==
    /\ last_computation # <<>>
    /\ file # <<>>
    /\ current_stats = file[1].current_stats
    /\ current_stats # base_stats
    /\ state.current_stats = 2
    /\ counts.applies >= 1
    /\ last_computation[1].stat # "Strength"

=============================================================================
